---- MODULE Spec2Model ----
(***************************************************************************)
(* Model of beras/layers.py: the Dense layer (forward, gradients,          *)
(* weights, weight initialisation) together with the call wrapper of its   *)
(* base class Diffable that stores the inputs of a layer call.             *)
(*                                                                         *)
(* Tensors are records [shape, data]; data is a nested sequence.  Floats   *)
(* are abstracted to integers (no rounding), random draws to the arrays    *)
(* RandomDraws.  Strings that are case-converted are sequences of          *)
(* one-character strings.                                                  *)
(***************************************************************************)
EXTENDS Integers, Sequences, FiniteSets, TLC

VARIABLES
    self,      \* the Dense object: the attributes assigned on it and their values
    call,      \* the most recent operation and its arguments
    ret,       \* what that operation returned or raised
    fresh,     \* no forward pass has been run on the layer yet
    ncalls,    \* number of layer calls so far (counted up to MaxCalls)
    last_x,    \* the input of the most recent layer call
    stale      \* some earlier layer call had an input other than last_x

vars == <<self, call, ret, fresh, ncalls, last_x, stale>>

\* ------------------------------------------------------------------ bounds
MaxIn == 2
MaxOut == 2
MaxBatch == 2
MaxCalls == 2
MaxSeed == 2

\* first entry of the input arrays
XStart == {1, 2}

\* ----------------------------------------------------------------- tensors
NoTensor == [shape |-> <<>>, data |-> <<>>]

ndim(t) == Len(t.shape)

Vec(d) == [shape |-> <<Len(d)>>, data |-> d]

Mat(d) == [shape |-> <<Len(d), Len(d[1])>>, data |-> d]

Ten3(d) == [shape |-> <<Len(d), Len(d[1]), Len(d[1][1])>>, data |-> d]

\* np.zeros / np.ones of rank 1, 2, 3
np_zeros1(n) == Vec([j \in 1..n |-> 0])

np_ones1(n) == Vec([j \in 1..n |-> 1])

np_zeros2(r, c) == Mat([k \in 1..r |-> [j \in 1..c |-> 0]])

np_zeros3(a, r, c) == Ten3([i \in 1..a |-> [k \in 1..r |-> [j \in 1..c |-> 0]]])

\* ------------------------------------------------------------ call results
NoResult == [kind |-> "none"]

Return(v) == [kind |-> "return", value |-> v]

Raise(exc, origin, msg) == [kind |-> "raise", exc |-> exc, origin |-> origin, msg |-> msg]

\* ----------------------------------------------------------------- strings
LowerLetters == <<"a","b","c","d","e","f","g","h","i","j","k","l","m",
                  "n","o","p","q","r","s","t","u","v","w","x","y","z">>

UpperLetters == <<"A","B","C","D","E","F","G","H","I","J","K","L","M",
                  "N","O","P","Q","R","S","T","U","V","W","X","Y","Z">>

lower_char(c) ==
    IF \E i \in 1..26 : UpperLetters[i] = c
    THEN LowerLetters[CHOOSE i \in 1..26 : UpperLetters[i] = c]
    ELSE c

upper_char(c) ==
    IF \E i \in 1..26 : LowerLetters[i] = c
    THEN UpperLetters[CHOOSE i \in 1..26 : LowerLetters[i] = c]
    ELSE c

\* str.lower()
lower(s) == [i \in 1..Len(s) |-> lower_char(s[i])]

upper(s) == [i \in 1..Len(s) |-> upper_char(s[i])]

capitalize(s) == [i \in 1..Len(s) |-> IF i = 1 THEN upper_char(s[i]) ELSE lower_char(s[i])]

\* every way of writing s in upper and lower case letters
AllCases(s) == {t \in [1..Len(s) -> {s[i] : i \in 1..Len(s)} \cup {upper_char(s[i]) : i \in 1..Len(s)}] :
                   \A i \in 1..Len(s) : t[i] \in {s[i], upper_char(s[i])}}

STR_ZERO == <<"z","e","r","o">>
STR_NORMAL == <<"n","o","r","m","a","l">>
STR_XAVIER == <<"x","a","v","i","e","r">>
STR_KAIMING == <<"k","a","i","m","i","n","g">>
STR_XAVIER_UNIFORM == <<"x","a","v","i","e","r"," ","u","n","i","f","o","r","m">>
STR_KAIMING_UNIFORM == <<"k","a","i","m","i","n","g"," ","u","n","i","f","o","r","m">>

DENSE_INITIALIZERS ==
    {STR_ZERO, STR_NORMAL, STR_XAVIER, STR_KAIMING, STR_XAVIER_UNIFORM, STR_KAIMING_UNIFORM}

\* names that are none of the six strategies in any case
UnknownNames ==
    { <<"b","o","g","u","s">>, <<"B","o","g","u","s">>, <<"f","o","o">>, <<"F","O","O">>,
      <<"z","e","r","o","s">>, <<"Z","e","r","o"," ">>, <<"x","a","v","i","e","r","_","u","n","i","f","o","r","m">>,
      <<>> }

\* the initializer arguments tried: the six names in several cases, and unknown names
InitializerArgs ==
    AllCases(STR_ZERO)
      \cup UNION {{s, upper(s), capitalize(s)} : s \in DENSE_INITIALIZERS}
      \cup {<<"x","A","v","I","e","R">>, <<"K","a","i","m","i","n","g"," ","U","n","i","f","o","r","m">>}
      \cup UnknownNames


\* ------------------------------------------------------------------ inputs
\* an array of bs rows and n columns counting up from c
\* (c = 1, bs = n = 2 is [[1, 2], [3, 4]])
Ramp(c, bs, n) == [i \in 1..bs |-> [k \in 1..n |-> c + (i - 1) * n + (k - 1)]]

\* rank-1 inputs of every length and rank-2 inputs of every batch size and width
Inputs ==
    UNION {{Vec(Ramp(c, 1, n)[1]) : c \in XStart} : n \in 1..MaxIn}
      \cup UNION {{Mat(Ramp(c, bs, n)) : c \in XStart} : <<bs, n>> \in (1..MaxBatch) \X (1..MaxIn)}

\* the inputs given to forward when it is called without the call wrapper:
\* single samples, as rank-1 arrays and as batches of one
DirectInputs ==
    {x \in Inputs : IF ndim(x) = 1 THEN x.data[1] = 1 ELSE x.shape[1] = 1 /\ x.data[1][1] = 1}

\* what the random generator draws for an array of r rows and c columns,
\* one array per state (seed) of the generator; entries lie in -2..2
RandomArray(seed, r, c) == [k \in 1..r |-> [j \in 1..c |-> ((seed + 2 * k + 3 * j) % 5) - 2]]

RandomDraws(r, c) == {RandomArray(seed, r, c) : seed \in 1..MaxSeed}

\* equality of tensors: shapes first, data only when the shapes agree
TensorEq(s, t) == s.shape = t.shape /\ s.data = t.data

\* --------------------------------------------------------------- the layer
\* an object of class Dense on which no attribute has been assigned
NoObject == [attrs |-> {}, w |-> NoTensor, b |-> NoTensor, inputs |-> <<>>]

UnknownStrategyMsg(name) ==
    <<"Unknown dense weight initialization strategy '", name, "' requested">>

\* _initialize_weight comparing the name as written, without lower()
initialize_weight_case_sensitive(initializer, input_size, output_size, rnd) ==
    LET name == initializer
        b == np_zeros1(output_size)
    IN  IF name = STR_ZERO THEN Return(<<np_zeros2(input_size, output_size), b>>)
        ELSE IF name \in DENSE_INITIALIZERS THEN Return(<<Mat(rnd), b>>)
        ELSE Raise("ValueError", "Dense._initialize_weight", UnknownStrategyMsg(name))

\* _initialize_weight whose last branch falls back to the normal strategy
initialize_weight_fallback(initializer, input_size, output_size, rnd) ==
    LET name == lower(initializer)
        b == np_zeros1(output_size)
    IN  IF name = STR_ZERO THEN Return(<<np_zeros2(input_size, output_size), b>>)
        ELSE Return(<<Mat(rnd), b>>)

\* Dense._initialize_weight; rnd is the array the random generator draws
initialize_weight(initializer, input_size, output_size, rnd) ==
    LET name == lower(initializer)
        b == np_zeros1(output_size)
    IN  IF name = STR_ZERO THEN Return(<<np_zeros2(input_size, output_size), b>>)
        ELSE IF name = STR_NORMAL THEN Return(<<Mat(rnd), b>>)
        ELSE IF name = STR_XAVIER THEN Return(<<Mat(rnd), b>>)
        ELSE IF name = STR_KAIMING THEN Return(<<Mat(rnd), b>>)
        ELSE IF name = STR_XAVIER_UNIFORM THEN Return(<<Mat(rnd), b>>)
        ELSE IF name = STR_KAIMING_UNIFORM THEN Return(<<Mat(rnd), b>>)
        ELSE Raise("ValueError", "Dense._initialize_weight", UnknownStrategyMsg(name))

\* Dense.__init__: the tuple assignment happens only when _initialize_weight returns
Dense_init(initializer, input_size, output_size, rnd) ==
    LET r == initialize_weight(initializer, input_size, output_size, rnd)
    IN  IF r.kind = "raise"
        THEN [ret |-> r, self |-> NoObject]
        ELSE [ret |-> Return(<<>>),
              self |-> [attrs |-> {"w", "b"}, w |-> r.value[1], b |-> r.value[2], inputs |-> <<>>]]

\* Dense.weights
weights(obj) == [ret |-> Return(<<obj.w, obj.b>>), self |-> obj]

RECURSIVE dot(_, _, _, _)
\* sum of row[k] * m[k][j] for k = 1..n, accumulated from the first term
dot(row, m, j, n) == IF n = 0 THEN 0 ELSE dot(row, m, j, n - 1) + row[n] * m[n][j]

\* numpy matmul of two rank-2 arrays
matmul(a, m) ==
    IF a.shape[2] # m.shape[1]
    THEN Raise("ValueError", "numpy.matmul", <<"matmul: Input operand 1 has a mismatch in its core dimension 0">>)
    ELSE Return(Mat([i \in 1..a.shape[1] |->
                       [j \in 1..m.shape[2] |-> dot(a.data[i], m.data, j, a.shape[2])]]))

\* numpy addition of a rank-2 array and a rank-1 array, broadcast over the rows
add_broadcast(a, v) ==
    Mat([i \in 1..a.shape[1] |-> [j \in 1..a.shape[2] |-> a.data[i][j] + v.data[j]]])

\* x[None, :]
expand_dims(x) == [shape |-> <<1>> \o x.shape, data |-> <<x.data>>]

\* forward returning x @ w without the bias
forward_no_bias(x, obj) ==
    LET x2 == IF ndim(x) = 1 THEN expand_dims(x) ELSE x
        xw == matmul(x2, obj.w)
    IN  [ret |-> xw, self |-> obj]

\* forward storing the promoted input on the layer
forward_caching(x, obj) ==
    LET x2 == IF ndim(x) = 1 THEN expand_dims(x) ELSE x
        xw == matmul(x2, obj.w)
        obj2 == [obj EXCEPT !.attrs = @ \cup {"inputs"}, !.inputs = <<x2>>]
    IN  IF xw.kind = "raise"
        THEN [ret |-> xw, self |-> obj2]
        ELSE [ret |-> Return(add_broadcast(xw.value, obj.b)), self |-> obj2]

\* forward accumulating x @ w into the bias array in place (out = self.b; out += ...)
forward_aliasing(x, obj) ==
    LET x2 == IF ndim(x) = 1 THEN expand_dims(x) ELSE x
        xw == matmul(x2, obj.w)
    IN  IF xw.kind = "raise"
        THEN [ret |-> xw, self |-> obj]
        ELSE LET out == add_broadcast(xw.value, obj.b)
             IN  [ret |-> Return(out), self |-> [obj EXCEPT !.b = Vec(out.data[1])]]

\* Dense.forward
forward(x, obj) ==
    LET x2 == IF ndim(x) = 1 THEN expand_dims(x) ELSE x
        xw == matmul(x2, obj.w)
    IN  IF xw.kind = "raise"
        THEN [ret |-> xw, self |-> obj]
        ELSE [ret |-> Return(add_broadcast(xw.value, obj.b)), self |-> obj]

\* Dense.get_input_gradients
get_input_gradients(obj) == [ret |-> Return(<<obj.w>>), self |-> obj]

RECURSIVE fill_columns(_, _, _)
\* for j in range(out_dim): w_grad[:, j] = x
fill_columns(g, x, j) ==
    IF j = 0 THEN g
    ELSE LET h == fill_columns(g, x, j - 1)
         IN  [k \in 1..Len(h) |-> [h[k] EXCEPT ![j] = x[k]]]

RECURSIVE fill_samples(_, _, _, _)
\* for i in range(batch_size): for j in range(out_dim): w_grad[i, :, j] = x[i]
fill_samples(g, x, i, out_dim) ==
    IF i = 0 THEN g
    ELSE LET h == fill_samples(g, x, i - 1, out_dim)
         IN  [h EXCEPT ![i] = fill_columns(h[i], x[i], out_dim)]

\* get_weight_gradients writing the first sample into every slice (x[0] for x[i])
get_weight_gradients_first_sample(obj) ==
    IF "inputs" \notin obj.attrs
    THEN [ret |-> Raise("AttributeError", "Dense.get_weight_gradients",
                        <<"'Dense' object has no attribute 'inputs'">>),
          self |-> obj]
    ELSE LET x == obj.inputs[1]
             out_dim == obj.w.shape[2]
         IN  IF ndim(x) = 1
             THEN [ret |-> Return(<<Mat(fill_columns(np_zeros2(x.shape[1], out_dim).data, x.data, out_dim)),
                                    np_ones1(out_dim)>>),
                   self |-> obj]
             ELSE LET x0 == [i \in 1..x.shape[1] |-> x.data[1]]
                  IN  [ret |-> Return(<<Ten3(fill_samples(np_zeros3(x.shape[1], x.shape[2], out_dim).data,
                                                          x0, x.shape[1], out_dim)),
                                        np_ones1(out_dim)>>),
                       self |-> obj]

\* get_weight_gradients giving the bias gradient one row per sample of a batch
get_weight_gradients_batched_bias(obj) ==
    IF "inputs" \notin obj.attrs
    THEN [ret |-> Raise("AttributeError", "Dense.get_weight_gradients",
                        <<"'Dense' object has no attribute 'inputs'">>),
          self |-> obj]
    ELSE LET x == obj.inputs[1]
             out_dim == obj.w.shape[2]
         IN  IF ndim(x) = 1
             THEN [ret |-> Return(<<Mat(fill_columns(np_zeros2(x.shape[1], out_dim).data, x.data, out_dim)),
                                    np_ones1(out_dim)>>),
                   self |-> obj]
             ELSE [ret |-> Return(<<Ten3(fill_samples(np_zeros3(x.shape[1], x.shape[2], out_dim).data,
                                                      x.data, x.shape[1], out_dim)),
                                    Mat([i \in 1..x.shape[1] |-> np_ones1(out_dim).data])>>),
                   self |-> obj]

\* Dense.get_weight_gradients
get_weight_gradients(obj) ==
    IF "inputs" \notin obj.attrs
    THEN [ret |-> Raise("AttributeError", "Dense.get_weight_gradients",
                        <<"'Dense' object has no attribute 'inputs'">>),
          self |-> obj]
    ELSE LET x == obj.inputs[1]
             out_dim == obj.w.shape[2]
         IN  IF ndim(x) = 1
             THEN LET n == x.shape[1]
                      w_grad == fill_columns(np_zeros2(n, out_dim).data, x.data, out_dim)
                      b_grad == np_ones1(out_dim)
                  IN  [ret |-> Return(<<Mat(w_grad), b_grad>>), self |-> obj]
             ELSE LET batch_size == x.shape[1]
                      n == x.shape[2]
                      w_grad == fill_samples(np_zeros3(batch_size, n, out_dim).data, x.data,
                                             batch_size, out_dim)
                      b_grad == np_ones1(out_dim)
                  IN  [ret |-> Return(<<Ten3(w_grad), b_grad>>), self |-> obj]

\* the call wrapper appending to the stored inputs instead of replacing them
Diffable_call_accumulating(x, obj) ==
    forward(x, [obj EXCEPT !.attrs = @ \cup {"inputs"}, !.inputs = @ \o <<x>>])

\* Diffable.__call__: stores the arguments of the call as the layer's inputs,
\* then runs forward on them
Diffable_call(x, obj) ==
    forward(x, [obj EXCEPT !.attrs = @ \cup {"inputs"}, !.inputs = <<x>>])

\* ----------------------------------------------------------------- actions
NoCall == [op |-> "none", initializer |-> <<>>, input_size |-> 0, output_size |-> 0, x |-> NoTensor]

Init ==
    /\ self = NoObject
    /\ call = NoCall
    /\ ret = NoResult
    /\ fresh = TRUE
    /\ ncalls = 0
    /\ last_x = NoTensor
    /\ stale = FALSE

Constructed == "w" \in self.attrs

\* Dense(input_size, output_size, initializer)
Construct ==
    /\ call.op = "none"
    /\ \E initializer \in InitializerArgs, input_size \in 1..MaxIn, output_size \in 1..MaxOut :
         \E rnd \in RandomDraws(input_size, output_size) :
            LET r == Dense_init(initializer, input_size, output_size, rnd)
            IN  /\ self' = r.self
                /\ ret' = r.ret
                /\ call' = [NoCall EXCEPT !.op = "__init__", !.initializer = initializer,
                                          !.input_size = input_size, !.output_size = output_size]
    /\ UNCHANGED <<fresh, ncalls, last_x, stale>>

\* layer.weights
Weights ==
    /\ Constructed
    /\ LET r == weights(self)
       IN  self' = r.self /\ ret' = r.ret
    /\ call' = [NoCall EXCEPT !.op = "weights"]
    /\ UNCHANGED <<fresh, ncalls, last_x, stale>>

\* layer.forward(x), called directly
Forward ==
    /\ Constructed
    /\ \E x \in DirectInputs :
         LET r == forward(x, self)
         IN  /\ self' = r.self
             /\ ret' = r.ret
             /\ call' = [NoCall EXCEPT !.op = "forward", !.x = x]
    /\ fresh' = FALSE
    /\ UNCHANGED <<ncalls, last_x, stale>>

\* layer(x)
Call ==
    /\ Constructed
    /\ \E x \in Inputs :
         LET r == Diffable_call(x, self)
         IN  /\ self' = r.self
             /\ ret' = r.ret
             /\ call' = [NoCall EXCEPT !.op = "__call__", !.x = x]
             /\ last_x' = x
             /\ stale' = (ncalls >= 1 /\ (stale \/ ~TensorEq(last_x, x)))
    /\ fresh' = FALSE
    /\ ncalls' = IF ncalls < MaxCalls THEN ncalls + 1 ELSE ncalls

\* layer.get_input_gradients()
GetInputGradients ==
    /\ Constructed
    /\ LET r == get_input_gradients(self)
       IN  self' = r.self /\ ret' = r.ret
    /\ call' = [NoCall EXCEPT !.op = "get_input_gradients"]
    /\ UNCHANGED <<fresh, ncalls, last_x, stale>>

\* layer.get_weight_gradients()
GetWeightGradients ==
    /\ Constructed
    /\ LET r == get_weight_gradients(self)
       IN  self' = r.self /\ ret' = r.ret
    /\ call' = [NoCall EXCEPT !.op = "get_weight_gradients"]
    /\ UNCHANGED <<fresh, ncalls, last_x, stale>>

\* an optimizer step: the values of both parameters are replaced in place,
\* their shapes are kept
Update ==
    /\ Constructed
    /\ \E seed \in 1..MaxSeed :
         self' = [self EXCEPT !.w = Mat(RandomArray(seed, self.w.shape[1], self.w.shape[2])),
                              !.b = Vec(RandomArray(seed, 1, self.b.shape[1])[1])]
    /\ call' = [NoCall EXCEPT !.op = "update"]
    /\ ret' = NoResult
    /\ UNCHANGED <<fresh, ncalls, last_x, stale>>

Next ==
    \/ Construct
    \/ Update
    \/ Weights
    \/ Forward
    \/ Call
    \/ GetInputGradients
    \/ GetWeightGradients

Spec == Init /\ [][Next]_vars

\* ------------------------------------------------------------------ claims
ForwardOps == {"forward", "__call__"}

LayerOps == ForwardOps \cup {"get_input_gradients", "get_weight_gradients", "weights"}

\* the last dimension of a tensor
TrailingDim(x) == x.shape[ndim(x)]

\* the samples of an input: the one row of a rank-1 input, the rows of a rank-2 input
Samples(x) == IF ndim(x) = 1 THEN <<x.data>> ELSE x.data

RECURSIVE SumOver(_, _)
\* the sum of f[k] over the indices k in S
SumOver(f, S) ==
    IF S = {} THEN 0
    ELSE LET k == CHOOSE m \in S : \A n \in S : m >= n
         IN  f[k] + SumOver(f, S \ {k})

\* sum over k of row[k] * W[k][j], plus b[j]
Affine(row, W, b, j) ==
    SumOver([k \in 1..Len(row) |-> row[k] * W.data[k][j]], 1..Len(row)) + b.data[j]

\* the weight gradient the contract gives for the input x and out columns
ExpectedWeightGradient(x, out) ==
    IF ndim(x) = 1
    THEN [shape |-> <<x.shape[1], out>>,
          data |-> [k \in 1..x.shape[1] |-> [j \in 1..out |-> x.data[k]]]]
    ELSE [shape |-> <<x.shape[1], x.shape[2], out>>,
          data |-> [i \in 1..x.shape[1] |-> [k \in 1..x.shape[2] |-> [j \in 1..out |-> x.data[i][k]]]]]

AllOnes(out) == [shape |-> <<out>>, data |-> [j \in 1..out |-> 1]]

\* initializer arguments that are one of the six names in some letter case
RecognizedArgs == InitializerArgs \ UnknownNames

\* C1: forward on an input whose trailing dimension is input_size returns a rank-2
\* array of shape batch_size x output_size (batch_size 1 for a rank-1 input) whose
\* entry [i][j] is the sum over k of x[i][k] * W[k][j], plus b[j].
C1_ForwardAffine ==
    (call.op \in ForwardOps /\ TrailingDim(call.x) = self.w.shape[1]) =>
        /\ ret.kind = "return"
        /\ ret.value.shape = <<Len(Samples(call.x)), self.w.shape[2]>>
        /\ Len(ret.value.data) = Len(Samples(call.x))
        /\ \A i \in 1..Len(Samples(call.x)) :
              /\ Len(ret.value.data[i]) = self.w.shape[2]
              /\ \A j \in 1..self.w.shape[2] :
                    ret.value.data[i][j] = Affine(Samples(call.x)[i], self.w, self.b, j)

\* a rank-1 input of length 2 went through forward on a layer with non-zero bias
C1_Witness ==
    /\ call.op \in ForwardOps
    /\ call.x.shape = <<2>>
    /\ self.w.shape[1] = 2
    /\ ret.kind = "return"
    /\ \E j \in 1..self.b.shape[1] : self.b.data[j] # 0 /\ ret.value.data[1][j] # self.b.data[j]

C6_Original ==
    (fresh /\ call.op \in {"get_input_gradients", "get_weight_gradients"}) =>
        ret.kind = "raise"

\* C7 as stated: forward on an input whose trailing dimension is not input_size fails
\* with an error raised by the layer itself, not one coming out of the matrix product.
C7_Original ==
    (call.op \in ForwardOps /\ TrailingDim(call.x) # self.w.shape[1]) =>
        /\ ret.kind = "raise"
        /\ ret.origin = "Dense.forward"

\* C8 as stated: construction with an unknown initializer name fails with an error
\* whose message names the string as it was supplied, and assigns neither W nor b.
C8_Original ==
    (call.op = "__init__" /\ call.initializer \in UnknownNames) =>
        /\ ret.kind = "raise"
        /\ ret.exc = "ValueError"
        /\ ret.msg[2] = call.initializer
        /\ self.attrs = {}

\* C8 amended: construction with an unknown initializer name fails with a ValueError
\* whose message names the lower-cased form of the supplied string, and assigns
\* neither W nor b, whatever input_size and output_size are.
C8_UnknownInitializer ==
    (call.op = "__init__" /\ call.initializer \in UnknownNames) =>
        /\ ret.kind = "raise"
        /\ ret.exc = "ValueError"
        /\ Len(ret.msg[2]) = Len(call.initializer)
        /\ \A i \in 1..Len(call.initializer) : ret.msg[2][i] = lower_char(call.initializer[i])
        /\ self.attrs = {}

\* construction was tried with the initializer "Bogus"
C8_Witness ==
    /\ call.op = "__init__"
    /\ call.initializer = <<"B","o","g","u","s">>
    /\ call.input_size = 2
    /\ ret.kind = "raise"

\* C9: construction with one of the six names in any letter case succeeds, and
\* weights is then the pair (W, b) with W of shape (input_size, output_size) and b
\* of shape (output_size,) with every entry zero.
C9_RecognizedInitializer ==
    (call.op = "__init__" /\ call.initializer \in RecognizedArgs) =>
        /\ ret.kind = "return"
        /\ self.attrs = {"w", "b"}
        /\ LET params == weights(self).ret.value
           IN  /\ Len(params) = 2
               /\ params[1].shape = <<call.input_size, call.output_size>>
               /\ Len(params[1].data) = call.input_size
               /\ \A k \in 1..call.input_size : Len(params[1].data[k]) = call.output_size
               /\ params[2].shape = <<call.output_size>>
               /\ Len(params[2].data) = call.output_size
               /\ \A j \in 1..call.output_size : params[2].data[j] = 0

\* a layer was constructed with the initializer "Kaiming Uniform"
C9_Witness ==
    /\ call.op = "__init__"
    /\ call.initializer = <<"K","a","i","m","i","n","g"," ","U","n","i","f","o","r","m">>
    /\ call.input_size = 2
    /\ call.output_size = 1
    /\ ret.kind = "return"
    /\ self.w.data[1][1] # 0

\* C10: forward, layer calls, get_input_gradients, get_weight_gradients and weights
\* leave the values and shapes of W and b as they were, and weights returns W and b
\* in that order.
C10_ParametersFixed ==
    [][(Constructed /\ call'.op \in LayerOps) =>
          /\ self'.attrs \cap {"w", "b"} = {"w", "b"}
          /\ TensorEq(self'.w, self.w)
          /\ TensorEq(self'.b, self.b)
          /\ call'.op = "weights" =>
                /\ Len(ret'.value) = 2
                /\ TensorEq(ret'.value[1], self.w)
                /\ TensorEq(ret'.value[2], self.b)]_vars

\* a forward pass has run on a layer whose W and b are not zero
C10_Witness ==
    /\ call.op \in ForwardOps
    /\ ret.kind = "return"
    /\ \E j \in 1..self.b.shape[1] : self.b.data[j] # 0
    /\ \E j \in 1..self.w.shape[2] : self.w.data[1][j] # 0

====
